---- MODULE Spec2Model ----
(***************************************************************************)
(* testmux.Router: an HTTP request multiplexer that tracks whether the     *)
(* requests it dispatches arrive in the order in which their routes were   *)
(* registered (src/testmux.go).                                            *)
(*                                                                         *)
(* Go slices are 0-based and TLA+ sequences 1-based: the route at Go       *)
(* position i is routes[i + 1]; index keeps its Go value.                  *)
(***************************************************************************)
EXTENDS Naturals, Sequences, FiniteSets, TLC

VARIABLES
    routes,     \* Router.routes: sequence of route records
    index,      \* Router.index
    errors,     \* Router.errors: sequence of strings
    served,     \* the requests dispatched so far, each with the route match gave it (0: nil)
                \* and the response recorded for it
    reported,   \* the strings handed to t.Error so far
    rets,       \* the values returned by the AssertVisited calls so far
    calls,      \* the names of the exported methods the test called so far, in call order
    procs       \* the ServeHTTP calls in progress when requests are served concurrently:
                \* for each goroutine, where it is in ServeHTTP and its local variables

vars == <<routes, index, errors, served, reported, rets, calls, procs>>

\* ---------------------------------------------------------------- bounds
\* Spec: the number of calls of the exported methods
MaxCalls == 5
\* OrderedSpec: the number of calls of each kind
MaxRoutes == 3
MaxDispatch == 3
MaxVerify == 2

\* ---------------------------------------------------------------- inputs
Methods == {"GET", "PUT"}
Paths == {"/foo", "/bar"}
\* the static responses the tests register: <<method, path, status, body>>
Responses == {<<"GET", "/foo", 200, "">>, <<"GET", "/bar", 201, "">>, <<"PUT", "/foo", 202, "">>}
\* what a handler given to RegisterFunc leaves in the response recorder
Handlers == {[Code |-> 202, Body |-> ""]}

\* the goroutines in which the server runs ServeHTTP, one per connection
Goroutines == {"g1", "g2"}

\* a handler given to RegisterFunc that itself registers a route on the same Router
\* while it runs: r.RegisterFunc(registers[1], registers[2], registers[3])
RegisteringHandlers ==
    {[Code |-> 200, Body |-> "", registers |-> <<"GET", "/bar", [Code |-> 202, Body |-> ""]>>]}

\* ---------------------------------------------------------------- types
\* a route built with the method and the path in each other's field
route_Swapped(method, path, handler) ==
    [method |-> path, path |-> method, handler |-> handler, visited |-> FALSE]

\* type route struct
route(method, path, handler) ==
    [method |-> method, path |-> path, handler |-> handler, visited |-> FALSE]

\* fmt.Fprintln(w, body): the operand followed by a newline
Fprintln(body) == body \o "\n"

\* the closure RegisterResp builds: WriteHeader(status), then Fprintln(w, body)
RespHandler(status, body) == [Code |-> status, Body |-> Fprintln(body)]

\* the not-found text written without the status, which leaves the recorder at 200
NotFound_NoStatus == [Code |-> 200, Body |-> Fprintln("404 page not found")]

\* http.NotFound(w, req)
NotFound == [Code |-> 404, Body |-> Fprintln("404 page not found")]

\* fmt.Sprintf(format, a...) for the one shape the router uses: "<prefix>: %s %s"
Sprintf(prefix, method, path) == prefix \o ": " \o method \o " " \o path

\* addErrorf that assigns the new string instead of appending it
addErrorf_Overwrite(errs, prefix, method, path) == <<Sprintf(prefix, method, path)>>

\* addErrorf that puts the new string in front of the collection
addErrorf_Prepend(errs, prefix, method, path) == <<Sprintf(prefix, method, path)>> \o errs

\* Router.addErrorf
addErrorf(errs, prefix, method, path) == Append(errs, Sprintf(prefix, method, path))

\* type Router struct, type route struct: the fields and what they hold
TypeOK ==
    /\ \A i \in 1..Len(routes) :
          /\ DOMAIN routes[i] = {"method", "path", "handler", "visited"}
          /\ routes[i].visited \in BOOLEAN
    /\ index \in Nat
    /\ \A k \in 1..Len(errors) : Len(errors[k]) > 0
    /\ \A g \in Goroutines :
          procs[g].pc \in {"idle", "execute", "readErrors", "writeErrors",
                           "readIndex", "writeIndex"}

\* ---------------------------------------------------------------- match
\* the loop of match keeping the last route that fits instead of returning the first
RECURSIVE matchFrom_Last(_, _, _, _)
matchFrom_Last(rs, from, method, path) ==
    IF from > Len(rs) THEN 0
    ELSE LET later == matchFrom_Last(rs, from + 1, method, path)
         IN  IF later # 0 THEN later
             ELSE IF ~rs[from].visited /\ rs[from].method = method /\ rs[from].path = path
                  THEN from
                  ELSE 0

\* the loop of match without the !rte.visited test
RECURSIVE matchFrom_IgnoreVisited(_, _, _, _)
matchFrom_IgnoreVisited(rs, from, method, path) ==
    IF from > Len(rs) THEN 0
    ELSE IF rs[from].method = method /\ rs[from].path = path
         THEN from
         ELSE matchFrom_IgnoreVisited(rs, from + 1, method, path)

\* The loop of Router.match over rs[from..]: the 1-based position of the first
\* route that is unvisited and has the method and the path, 0 for nil.
RECURSIVE matchFrom(_, _, _, _)
matchFrom(rs, from, method, path) ==
    IF from > Len(rs) THEN 0
    ELSE IF ~rs[from].visited /\ rs[from].method = method /\ rs[from].path = path
         THEN from
         ELSE matchFrom(rs, from + 1, method, path)

\* match that reports every route it finds as in order
match_AlwaysOrdered(rs, idx, method, path) ==
    LET p == matchFrom(rs, 1, method, path)
    IN  IF p # 0 THEN [rte |-> p, ordered |-> TRUE]
        ELSE [rte |-> 0, ordered |-> FALSE]

\* match with the order flag taken one position late: (i + 1 == r.index)
match_OffByOne(rs, idx, method, path) ==
    LET p == matchFrom(rs, 1, method, path)
    IN  IF p # 0 THEN [rte |-> p, ordered |-> (p = idx)]
        ELSE [rte |-> 0, ordered |-> FALSE]

\* Router.match: (route or nil, ordered)
match(rs, idx, method, path) ==
    LET p == matchFrom(rs, 1, method, path)
    IN  IF p # 0 THEN [rte |-> p, ordered |-> (p - 1 = idx)]
        ELSE [rte |-> 0, ordered |-> FALSE]

\* what a handler leaves in the response recorder: the status and the body it wrote
response(handler) == [Code |-> handler.Code, Body |-> handler.Body]

\* The capacity of r.routes when it holds n routes: it is nil at first and grows by
\* append of one route at a time, which the Go runtime serves by doubling
\* (0, 1, 2, 4, 8, ...); append moves the routes to a new array exactly when n
\* routes fill the capacity.
RECURSIVE sliceCap(_)
sliceCap(n) == IF n <= 1 THEN n ELSE 2 * sliceCap((n + 1) \div 2)

\* rte.handler(w, req) in execute: r.routes as the handler of rs[p] leaves it, the
\* same unless the handler registers a route
handlerRuns(rs, p) ==
    IF "registers" \in DOMAIN rs[p].handler
    THEN LET a == rs[p].handler.registers IN Append(rs, route(a[1], a[2], a[3]))
    ELSE rs

\* the routes were moved to a new array between match, which returned a pointer
\* into the array that held rs, and the time r.routes holds ran
moved(rs, ran) == Len(ran) > Len(rs) /\ Len(rs) = sliceCap(Len(rs))

\* execute that marks every route with the key of the route it was given
execute_MarkKey(rs, p) ==
    [i \in 1..Len(rs) |->
        IF rs[i].method = rs[p].method /\ rs[i].path = rs[p].path
        THEN [rs[i] EXCEPT !.visited = TRUE]
        ELSE rs[i]]

\* execute that runs the handler and forgets to mark the route
execute_NoMark(rs, p) == rs

\* route.execute: run the handler, then mark the route visited
execute(rs, p) == [rs EXCEPT ![p].visited = TRUE]

\* ---------------------------------------------------------------- operations
Init ==
    /\ routes = <<>>
    /\ index = 0
    /\ errors = <<>>
    /\ served = <<>>
    /\ reported = <<>>
    /\ rets = <<>>
    /\ calls = <<>>
    /\ procs = [g \in Goroutines |-> [pc |-> "idle"]]

\* Router.RegisterFunc
RegisterFunc(method, path, handler) ==
    /\ routes' = Append(routes, route(method, path, handler))
    /\ calls' = Append(calls, "RegisterFunc")
    /\ UNCHANGED <<index, errors, served, reported, rets, procs>>

\* Router.RegisterResp
RegisterResp(method, path, status, body) ==
    /\ routes' = Append(routes, route(method, path, RespHandler(status, body)))
    /\ calls' = Append(calls, "RegisterResp")
    /\ UNCHANGED <<index, errors, served, reported, rets, procs>>

\* r.index++ placed in the branch that found a route
nextIndex_OnMatch(idx, m) == IF m.rte # 0 THEN idx + 1 ELSE idx

\* the cursor moved to the position after the route that was found
nextIndex_Resync(idx, m) == IF m.rte # 0 THEN m.rte ELSE idx + 1

\* r.index++ at the end of ServeHTTP, reached whatever match returned (m)
nextIndex(idx, m) == idx + 1

\* Router.ServeHTTP
ServeHTTP(method, path) ==
    /\ LET m == match(routes, index, method, path)
       IN  /\ IF m.rte # 0
              THEN /\ LET ran == handlerRuns(routes, m.rte)
                      IN  routes' = IF moved(routes, ran)
                                    THEN ran    \* rte.visited = true lands in the old array
                                    ELSE execute(ran, m.rte)
                   /\ served' = Append(served, [method |-> method, path |-> path,
                                                rte |-> m.rte,
                                                resp |-> response(routes[m.rte].handler)])
                   /\ errors' = IF ~m.ordered
                                THEN addErrorf(errors, "Request out of order", method, path)
                                ELSE errors
              ELSE /\ routes' = routes
                   /\ served' = Append(served, [method |-> method, path |-> path, rte |-> 0,
                                                resp |-> NotFound])
                   /\ errors' = addErrorf(errors, "Unexpected request", method, path)
           /\ index' = nextIndex(index, m)
    /\ calls' = Append(calls, "ServeHTTP")
    /\ UNCHANGED <<reported, rets, procs>>

\* the first loop of AssertVisited without the !rte.visited test
RECURSIVE unvisitedFrom_All(_, _, _)
unvisitedFrom_All(errs, rs, from) ==
    IF from > Len(rs) THEN errs
    ELSE unvisitedFrom_All(addErrorf(errs, "Unvisited route", rs[from].method, rs[from].path),
                           rs, from + 1)

\* the first loop of AssertVisited recording an unvisited route once only
RECURSIVE unvisitedFrom_Once(_, _, _)
unvisitedFrom_Once(errs, rs, from) ==
    IF from > Len(rs) THEN errs
    ELSE unvisitedFrom_Once(
             IF /\ ~rs[from].visited
                /\ \A k \in 1..Len(errs) :
                      errs[k] # Sprintf("Unvisited route", rs[from].method, rs[from].path)
             THEN addErrorf(errs, "Unvisited route", rs[from].method, rs[from].path)
             ELSE errs,
             rs, from + 1)

\* the first loop of AssertVisited recording nothing
unvisitedFrom_None(errs, rs, from) == errs

\* The first loop of AssertVisited over rs[from..]: one diagnostic per unvisited route
RECURSIVE unvisitedFrom(_, _, _)
unvisitedFrom(errs, rs, from) ==
    IF from > Len(rs) THEN errs
    ELSE unvisitedFrom(IF ~rs[from].visited
                       THEN addErrorf(errs, "Unvisited route", rs[from].method, rs[from].path)
                       ELSE errs,
                       rs, from + 1)

\* the second loop of AssertVisited stopping at the first error, as t.Fatal would
tError_First(rep, errs) == IF errs = <<>> THEN rep ELSE Append(rep, errs[1])

\* The second loop of AssertVisited: t.Error(err) for each of the errors, in order
tError(rep, errs) == rep \o errs

\* Router.AssertVisited
AssertVisited ==
    /\ errors' = unvisitedFrom(errors, routes, 1)
    /\ reported' = tError(reported, errors')
    /\ rets' = Append(rets, Len(errors') = 0)
    /\ calls' = Append(calls, "AssertVisited")
    /\ UNCHANGED <<routes, index, served, procs>>

\* the calls made so far (every call is sequential: it returns before the next starts)
Calls == Len(routes) + index + Len(rets)

\* Any sequence of calls.
Next ==
    \/ \E method \in Methods, path \in Paths, handler \in Handlers :
          Calls < MaxCalls /\ RegisterFunc(method, path, handler)
    \/ \E r \in Responses :
          Calls < MaxCalls /\ RegisterResp(r[1], r[2], r[3], r[4])
    \/ \E method \in Methods, path \in Paths :
          Calls < MaxCalls /\ ServeHTTP(method, path)
    \/ Calls < MaxCalls /\ AssertVisited

Spec == Init /\ [][Next]_vars

\* The use doc.go shows: register the routes, make the requests, then assert.
NextOrdered ==
    \/ \E method \in Methods, path \in Paths, handler \in Handlers :
          /\ index = 0 /\ rets = <<>> /\ Len(routes) < MaxRoutes
          /\ RegisterFunc(method, path, handler)
    \/ \E r \in Responses :
          /\ index = 0 /\ rets = <<>> /\ Len(routes) < MaxRoutes
          /\ RegisterResp(r[1], r[2], r[3], r[4])
    \/ \E method \in Methods, path \in Paths :
          /\ rets = <<>> /\ index < MaxDispatch
          /\ ServeHTTP(method, path)
    \/ Len(rets) < MaxVerify /\ AssertVisited

OrderedSpec == Init /\ [][NextOrdered]_vars

\* Any sequence of calls, with handlers that register routes among those registered.
NextReentrant ==
    \/ \E method \in Methods, path \in Paths, handler \in Handlers \cup RegisteringHandlers :
          Calls < MaxCalls /\ RegisterFunc(method, path, handler)
    \/ \E method \in Methods, path \in Paths :
          Calls < MaxCalls /\ ServeHTTP(method, path)
    \/ Calls < MaxCalls /\ AssertVisited

ReentrantSpec == Init /\ [][NextReentrant]_vars

\* ---------------------------------------------------------------- concurrent requests
\* ServeHTTP run by several goroutines on one Router, with no lock: each access to
\* r.routes, r.errors and r.index is a step of its own, and the steps of the
\* goroutines interleave.

\* ServeHTTP entered by goroutine g, up to and including r.match(...); a request
\* that is not matched gets http.NotFound at once. The field returned remembers how
\* many ServeHTTP calls had returned when this one was matched.
Match(g, method, path) ==
    /\ procs[g].pc = "idle"
    /\ LET m == match(routes, index, method, path)
       IN  procs' = [procs EXCEPT ![g] =
                        [pc |-> IF m.rte # 0 THEN "execute" ELSE "readErrors",
                         method |-> method, path |-> path, m |-> m, resp |-> NotFound,
                         returned |-> Len(served)]]
    /\ UNCHANGED <<routes, index, errors, served, reported, rets, calls>>

\* rte.execute(w, req): the handler runs and the route is marked visited
Execute(g) ==
    /\ procs[g].pc = "execute"
    /\ routes' = execute(routes, procs[g].m.rte)
    /\ procs' = [procs EXCEPT ![g].resp = response(routes[procs[g].m.rte].handler),
                              ![g].pc = IF procs[g].m.ordered THEN "readIndex"
                                                              ELSE "readErrors"]
    /\ UNCHANGED <<index, errors, served, reported, rets, calls>>

\* addErrorf: append reads r.errors ...
ReadErrors(g) ==
    /\ procs[g].pc = "readErrors"
    /\ procs' = [procs EXCEPT ![g] = [procs[g] EXCEPT !.pc = "writeErrors"] @@ [errs |-> errors]]
    /\ UNCHANGED <<routes, index, errors, served, reported, rets, calls>>

\* ... and r.errors is assigned the result
WriteErrors(g) ==
    /\ procs[g].pc = "writeErrors"
    /\ errors' = addErrorf(procs[g].errs,
                           IF procs[g].m.rte # 0 THEN "Request out of order"
                                                 ELSE "Unexpected request",
                           procs[g].method, procs[g].path)
    /\ procs' = [procs EXCEPT ![g].pc = "readIndex"]
    /\ UNCHANGED <<routes, index, served, reported, rets, calls>>

\* r.index++ reads r.index ...
ReadIndex(g) ==
    /\ procs[g].pc = "readIndex"
    /\ procs' = [procs EXCEPT ![g] = [procs[g] EXCEPT !.pc = "writeIndex"] @@ [idx |-> index]]
    /\ UNCHANGED <<routes, index, errors, served, reported, rets, calls>>

\* ... and writes it back; ServeHTTP returns
WriteIndex(g) ==
    /\ procs[g].pc = "writeIndex"
    /\ index' = nextIndex(procs[g].idx, procs[g].m)
    /\ served' = Append(served, [method |-> procs[g].method, path |-> procs[g].path,
                                 rte |-> procs[g].m.rte, resp |-> procs[g].resp])
    /\ calls' = Append(calls, "ServeHTTP")
    /\ procs' = [procs EXCEPT ![g] = [pc |-> "idle"]]
    /\ UNCHANGED <<routes, errors, reported, rets>>

\* the goroutines that are inside ServeHTTP
Active == {g \in Goroutines : procs[g].pc # "idle"}

\* The routes are registered, then requests are served in up to two goroutines at a
\* time, then AssertVisited is called.
NextConcurrent ==
    \/ \E r \in Responses :
          /\ served = <<>> /\ Active = {} /\ rets = <<>> /\ Len(routes) < MaxRoutes
          /\ RegisterResp(r[1], r[2], r[3], r[4])
    \/ \E g \in Goroutines, method \in Methods, path \in Paths :
          /\ rets = <<>> /\ Len(routes) > 0
          /\ Len(served) + Cardinality(Active) < MaxDispatch
          /\ Match(g, method, path)
    \/ \E g \in Goroutines : Execute(g)
    \/ \E g \in Goroutines : ReadErrors(g)
    \/ \E g \in Goroutines : WriteErrors(g)
    \/ \E g \in Goroutines : ReadIndex(g)
    \/ \E g \in Goroutines : WriteIndex(g)
    \/ Active = {} /\ Len(rets) < MaxVerify /\ AssertVisited

ConcurrentSpec == Init /\ [][NextConcurrent]_vars

\* ---------------------------------------------------------------- properties
\* the (method, path) pairs of the registered routes, in registration order
RegisteredKeys == [i \in 1..Len(routes) |-> <<routes[i].method, routes[i].path>>]

\* the (method, path) pairs of the requests dispatched, in dispatch order
DispatchedKeys == [n \in 1..Len(served) |-> <<served[n].method, served[n].path>>]

\* the exported method called last
LastCall == IF calls = <<>> THEN "none" ELSE calls[Len(calls)]

\* the status codes of the responses, in dispatch order
Codes == [n \in 1..Len(served) |-> served[n].resp.Code]

\* C1: when the routes are registered first and the requests then made are exactly
\* the registered (method, path) pairs in the registered order, each request gets
\* the response of the route at its own position, no error is recorded, every
\* route is visited, t.Error is never called and AssertVisited returns true.
C1_InOrderSucceeds ==
    DispatchedKeys = RegisteredKeys =>
        /\ \A n \in 1..Len(served) : served[n].resp = routes[n].handler
        /\ \A i \in 1..Len(routes) : routes[i].visited
        /\ errors = <<>>
        /\ reported = <<>>
        /\ \A k \in 1..Len(rets) : rets[k] = TRUE

\* three routes, two of them with the same key and different responses, requested
\* in the registered order and then asserted
C1_Witness ==
    /\ Len(routes) = 3
    /\ DispatchedKeys = RegisteredKeys
    /\ \E i, j \in 1..3 : /\ i < j
                          /\ RegisteredKeys[i] = RegisteredKeys[j]
                          /\ routes[i].handler # routes[j].handler
    /\ Len(rets) = 1

\* some route of rs is unvisited and has the method and the path
Awaited(rs, method, path) ==
    \E i \in 1..Len(rs) : ~rs[i].visited /\ rs[i].method = method /\ rs[i].path = path

\* the request of the ServeHTTP call a step makes (a step with index' # index)
Request == served'[Len(served')]

\* C2: a request whose (method, path) is that of no unvisited route is answered 404,
\* appends exactly the one error "Unexpected request: <method> <path>" and changes
\* no route; every AssertVisited call made after such a request returns false.
C2_UnexpectedRequest ==
    [][ /\ (index' # index /\ ~Awaited(routes, Request.method, Request.path)) =>
              /\ Request.rte = 0
              /\ Request.resp.Code = 404
              /\ errors' = Append(errors, "Unexpected request: " \o Request.method
                                            \o " " \o Request.path)
              /\ routes' = routes
        /\ (rets' # rets /\ \E n \in 1..Len(served) : served[n].rte = 0) =>
              rets'[Len(rets')] = FALSE
      ]_vars

\* a request for a route that was registered and is already visited, answered 404,
\* and an AssertVisited call after it
C2_Witness ==
    /\ \E n \in 1..Len(served) :
          /\ served[n].rte = 0
          /\ served[n].resp.Code = 404
          /\ \E i \in 1..Len(routes) :
                /\ routes[i].visited
                /\ <<routes[i].method, routes[i].path>> = <<served[n].method, served[n].path>>
    /\ Len(rets) > 0
    /\ LastCall = "AssertVisited"
    /\ rets[Len(rets)] = FALSE

\* the position of the first route of rs that is unvisited and has the method and path
FirstAwaited(rs, method, path) ==
    CHOOSE i \in 1..Len(rs) :
        /\ ~rs[i].visited /\ rs[i].method = method /\ rs[i].path = path
        /\ \A j \in 1..(i - 1) :
              ~(~rs[j].visited /\ rs[j].method = method /\ rs[j].path = path)

\* C3: a request that matches an unvisited route gets that route's registered
\* response and makes the route (and no other) visited; when the route's (0-based)
\* position differs from index as it was when the call began, exactly the one error
\* "Request out of order: <method> <path>" is appended, and none when they are equal.
C3_OutOfOrder ==
    [][ (index' # index /\ Awaited(routes, Request.method, Request.path)) =>
          LET i == FirstAwaited(routes, Request.method, Request.path)
          IN  /\ Request.rte = i
              /\ Request.resp = routes[i].handler
              /\ routes' = [routes EXCEPT ![i].visited = TRUE]
              /\ errors' = IF i - 1 # index
                           THEN Append(errors, "Request out of order: " \o Request.method
                                                \o " " \o Request.path)
                           ELSE errors
      ]_vars

\* the last call was a request matched at a position other than index, after an
\* earlier request matched in order
C3_Witness ==
    /\ Len(served) >= 2
    /\ LastCall = "ServeHTTP"
    /\ served[Len(served)].rte # 0
    /\ served[Len(served)].rte - 1 # index - 1
    /\ routes[served[Len(served)].rte].visited
    /\ served[1].rte = 1
    /\ Len(errors) = 1

\* TestServeHTTP_OutOfOrderRequest: GET /foo (200), PUT /foo (202), GET /bar (201)
\* registered, then GET /foo, GET /bar, PUT /foo requested
ScenarioC ==
    /\ Len(routes) = 3
    /\ RegisteredKeys = <<(<<"GET", "/foo">>), (<<"PUT", "/foo">>), (<<"GET", "/bar">>)>>
    /\ routes[1].handler = RespHandler(200, "")
    /\ routes[2].handler = RespHandler(202, "")
    /\ routes[3].handler = RespHandler(201, "")
    /\ DispatchedKeys = <<(<<"GET", "/foo">>), (<<"GET", "/bar">>), (<<"PUT", "/foo">>)>>

\* C4 as stated: in scenario C the responses are 200, 201, 202 and the errors are
\* exactly "Request out of order: PUT /foo" followed by "Request out of order: GET /bar".
C4_AsStated ==
    ScenarioC =>
        /\ Codes = <<200, 201, 202>>
        /\ errors = <<"Request out of order: PUT /foo", "Request out of order: GET /bar">>

\* C4 (amended): in scenario C the responses are 200, 201, 202 and the errors are
\* exactly "Request out of order: GET /bar" followed by "Request out of order: PUT /foo"
\* (the order of the requests that produced them), with nothing else recorded.
C4_ScenarioC ==
    ScenarioC =>
        /\ Codes = <<200, 201, 202>>
        /\ errors = <<"Request out of order: GET /bar", "Request out of order: PUT /foo">>

\* scenario C has run
C4_Witness == ScenarioC /\ index = 3 /\ rets = <<>>

\* "Unvisited route: <method> <path>" for each unvisited route of rs, in the order of rs
UnvisitedErrors(rs) ==
    LET un == SelectSeq(rs, LAMBDA r : ~r.visited)
    IN  [k \in 1..Len(un) |-> "Unvisited route: " \o un[k].method \o " " \o un[k].path]

\* C5: one AssertVisited call appends exactly one "Unvisited route: <method> <path>"
\* for each route unvisited at that moment and nothing for a visited route, in
\* registration order and after every error recorded before; t.Error is called
\* (the test is marked failed) when there is at least one.
C5_UnvisitedRoutes ==
    [][ rets' # rets =>
          /\ errors' = errors \o UnvisitedErrors(routes)
          /\ UnvisitedErrors(routes) # <<>> =>
                /\ Len(reported') >= Len(reported) + Len(UnvisitedErrors(routes))
                /\ reported'[Len(reported')] = errors'[Len(errors')]
      ]_vars

\* the first AssertVisited call, made when one route is visited (out of order, so
\* that an error was recorded before) and two are not
C5_Witness ==
    /\ LastCall = "AssertVisited"
    /\ Len(rets) = 1
    /\ Len(routes) = 3
    /\ Cardinality({i \in 1..3 : routes[i].visited}) = 1
    /\ RegisteredKeys[1] # RegisteredKeys[3]
    /\ Len(errors) = 3
    /\ errors[1] \in {"Request out of order: GET /foo", "Request out of order: PUT /foo",
                      "Request out of order: GET /bar", "Request out of order: PUT /bar"}

\* the value the AssertVisited call of a step returns (a step with rets' # rets)
Returned == rets'[Len(rets')]

\* no request so far made ServeHTTP record an error: each was matched, at its own position
NoDispatchError == \A n \in 1..Len(served) : served[n].rte = n

\* no AssertVisited call so far recorded an unvisited route
NoUnvisitedError ==
    \A k \in 1..Len(errors) :
        errors[k] \notin {"Unvisited route: " \o m \o " " \o p : m \in Methods, p \in Paths}

AllVisited == \A i \in 1..Len(routes) : routes[i].visited

\* C6 as stated: AssertVisited returns true if and only if no request recorded an
\* out-of-order or unexpected error and no route is unvisited at the time of the call.
C6_AsStated ==
    [][ rets' # rets => (Returned <=> (NoDispatchError /\ AllVisited)) ]_vars

\* C6 (amended): AssertVisited returns true if and only if errors is empty after its
\* scan of the routes, that is if and only if no request recorded an out-of-order or
\* unexpected error, no earlier AssertVisited call recorded an unvisited route, and
\* no route is unvisited at the time of the call.
C6_ReturnValue ==
    [][ rets' # rets =>
          /\ Returned <=> (errors' = <<>>)
          /\ Returned <=> (NoDispatchError /\ NoUnvisitedError /\ AllVisited)
      ]_vars

\* AssertVisited has returned true after requests, and false with every route visited
\* in order (an earlier call had recorded the route as unvisited)
C6_Witness ==
    /\ LastCall = "AssertVisited"
    /\ Len(routes) >= 1
    /\ AllVisited
    /\ NoDispatchError
    /\ rets = <<FALSE, FALSE>>

\* the position in calls of the last AssertVisited call (0: none)
LastAssert ==
    IF \E k \in 1..Len(calls) : calls[k] = "AssertVisited"
    THEN CHOOSE k \in 1..Len(calls) :
             /\ calls[k] = "AssertVisited"
             /\ \A j \in (k + 1)..Len(calls) : calls[j] # "AssertVisited"
    ELSE 0

\* the number of routes registered by the first k calls
RegisteredBy(k) == Cardinality({j \in 1..k : calls[j] \in {"RegisterFunc", "RegisterResp"}})

\* how many times x occurs in seq
Count(seq, x) == Cardinality({k \in 1..Len(seq) : seq[k] = x})

\* C7: when AssertVisited is called again with no request since its last call, each
\* route that was registered before that last call and is still unvisited gets a
\* second "Unvisited route" error, so errors grows strictly; and the errors recorded
\* before, which the last call handed to t.Error, are handed to t.Error again.
C7_NotIdempotent ==
    [][ (/\ rets' # rets
         /\ LastAssert # 0
         /\ \A j \in (LastAssert + 1)..Len(calls) : calls[j] # "ServeHTTP") =>
          /\ \A i \in 1..RegisteredBy(LastAssert) :
                ~routes[i].visited =>
                  LET e == "Unvisited route: " \o routes[i].method \o " " \o routes[i].path
                  IN  /\ Count(errors, e) >= 1
                      /\ Count(errors', e) > Count(errors, e)
                      /\ Len(errors') > Len(errors)
          /\ Len(reported) >= Len(errors)
          /\ SubSeq(reported, Len(reported) - Len(errors) + 1, Len(reported)) = errors
          /\ SubSeq(reported', Len(reported) + 1, Len(reported) + Len(errors)) = errors
      ]_vars

\* AssertVisited called twice in a row with a route unvisited, after a request that
\* recorded an error
C7_Witness ==
    /\ Len(calls) >= 4
    /\ calls[Len(calls)] = "AssertVisited"
    /\ calls[Len(calls) - 1] = "AssertVisited"
    /\ \E i \in 1..Len(routes) : ~routes[i].visited
    /\ Len(served) = 1
    /\ served[1].rte = 0
    /\ Len(errors) = 3
    /\ Len(reported) = 5

\* p is the position of the k-th route registered with the key
IsKthWithKey(p, k, key) ==
    /\ RegisteredKeys[p] = key
    /\ Cardinality({q \in 1..p : RegisteredKeys[q] = key}) = k

\* C8: of two routes with the same (method, path) the later one is visited only if
\* the earlier one is; and the k-th request of a key that is matched is given the
\* k-th route registered with that key, and that route's response.
C8_FifoPerKey ==
    /\ \A i, j \in 1..Len(routes) :
          (i < j /\ RegisteredKeys[i] = RegisteredKeys[j] /\ routes[j].visited)
              => routes[i].visited
    /\ \A n \in 1..Len(served) :
          served[n].rte # 0 =>
              LET k == Cardinality({q \in 1..n : /\ served[q].rte # 0
                                                  /\ DispatchedKeys[q] = DispatchedKeys[n]})
              IN  \E p \in 1..Len(routes) :
                      /\ IsKthWithKey(p, k, DispatchedKeys[n])
                      /\ served[n].rte = p
                      /\ served[n].resp = routes[p].handler

\* two routes with the same key and different responses, a route with another key
\* between them, both consumed by two requests of that key
C8_Witness ==
    /\ Len(routes) = 3
    /\ RegisteredKeys[1] = RegisteredKeys[3]
    /\ RegisteredKeys[1] # RegisteredKeys[2]
    /\ routes[1].handler # routes[3].handler
    /\ routes[1].visited /\ routes[3].visited /\ ~routes[2].visited
    /\ Len(served) = 2
    /\ served[1].resp = routes[1].handler
    /\ served[2].resp = routes[3].handler

\* the errors the first n requests made ServeHTTP record, in the order of the requests
RECURSIVE DispatchErrors(_)
DispatchErrors(n) ==
    IF n = 0 THEN <<>>
    ELSE IF served[n].rte = 0
         THEN Append(DispatchErrors(n - 1), "Unexpected request: " \o served[n].method
                                             \o " " \o served[n].path)
         ELSE IF served[n].rte # n
              THEN Append(DispatchErrors(n - 1), "Request out of order: " \o served[n].method
                                                  \o " " \o served[n].path)
              ELSE DispatchErrors(n - 1)

\* C9: t.Error is called by AssertVisited only: a RegisterFunc, RegisterResp or
\* ServeHTTP call hands it nothing whatever errors holds; one AssertVisited call hands
\* it exactly the strings of errors as they are after the scan, one call per string
\* and in their order, which for the first AssertVisited call is the errors of the
\* requests in request order followed by the unvisited routes in registration order.
C9_ReporterOnlyInVerify ==
    [][ /\ rets' = rets => reported' = reported
        /\ rets' # rets =>
              /\ reported' = reported \o errors'
              /\ rets = <<>> =>
                    reported' = DispatchErrors(Len(served)) \o UnvisitedErrors(routes)
      ]_vars

\* the first AssertVisited call, after two requests that each recorded an error
\* and with a route unvisited
C9_Witness ==
    /\ LastCall = "AssertVisited"
    /\ Len(rets) = 1
    /\ Len(served) = 2
    /\ Len(DispatchErrors(2)) = 2
    /\ \E i \in 1..Len(routes) : ~routes[i].visited
    /\ Len(reported) >= 3

\* C10: when the routes are registered before the requests are made, AssertVisited
\* returns true if and only if the sequence of requested (method, path) pairs equals
\* the sequence of registered pairs, element by element and in length.
C10_TrueIffSameSequence ==
    \A k \in 1..Len(rets) : rets[k] <=> (DispatchedKeys = RegisteredKeys)

\* AssertVisited has returned false after every one of three routes was requested
\* once, in another order than the registered one
C10_Witness ==
    /\ rets = <<FALSE>>
    /\ Len(routes) = 3
    /\ Len(served) = 3
    /\ AllVisited
    /\ DispatchedKeys # RegisteredKeys

\* the exported method a step calls
Called == calls'[Len(calls')]

\* C11: index is 0 at first and always the number of ServeHTTP calls made: a
\* ServeHTTP call adds exactly 1 to it whether the request was matched in order,
\* matched out of order or not matched, and no other call changes it.
C11_IndexCountsDispatches ==
    [][ /\ index = Count(calls, "ServeHTTP")
        /\ index' = Count(calls', "ServeHTTP")
        /\ index' = IF Called = "ServeHTTP" THEN index + 1 ELSE index
      ]_vars

\* three requests: one matched in order, one not matched, one matched out of order
C11_Witness ==
    /\ index = 3
    /\ Len(served) = 3
    /\ served[1].rte = 1
    /\ served[2].rte = 0
    /\ served[3].rte = 2
    /\ Len(errors) = 2

\* the routes have pairwise different keys, and the requests made are one with a
\* key that is not registered followed by the registered keys in registered order
UnexpectedThenAll ==
    /\ \A i, j \in 1..Len(routes) : i # j => RegisteredKeys[i] # RegisteredKeys[j]
    /\ Len(served) = Len(routes) + 1
    /\ \A i \in 1..Len(routes) : DispatchedKeys[1] # RegisteredKeys[i]
    /\ \A i \in 1..Len(routes) : DispatchedKeys[i + 1] = RegisteredKeys[i]

\* C12: the cursor does not resynchronise: after one unexpected request, requests
\* for all n routes (of pairwise different keys) in registered order leave one
\* "Unexpected request" error followed by n "Request out of order" errors, one per
\* route in order, although every route ends visited.
C12_NoResync ==
    UnexpectedThenAll =>
        /\ AllVisited
        /\ \A i \in 1..Len(routes) : served[i + 1].rte = i
        /\ errors = <<"Unexpected request: " \o served[1].method \o " " \o served[1].path>>
                     \o [i \in 1..Len(routes) |->
                            "Request out of order: " \o routes[i].method \o " " \o routes[i].path]

\* an unexpected request followed by requests for two routes in registered order
C12_Witness ==
    /\ Len(routes) = 2
    /\ UnexpectedThenAll
    /\ Len(errors) = 3

\* the number of routes visited
VisitedRoutes == Cardinality({i \in 1..Len(routes) : routes[i].visited})

\* the number of errors that begin with the prefix (one of the three the router writes)
ErrorsOf(prefix) ==
    Cardinality({k \in 1..Len(errors) :
                    errors[k] \in {prefix \o ": " \o m \o " " \o p : m \in Methods, p \in Paths}})

\* C13: as long as AssertVisited has not been called, the number of visited routes
\* plus the number of "Unexpected request" errors equals index, there are at most
\* as many "Request out of order" errors as visited routes, and errors is no longer
\* than index.
C13_Counting ==
    rets = <<>> =>
        /\ VisitedRoutes + ErrorsOf("Unexpected request") = index
        /\ ErrorsOf("Request out of order") <= VisitedRoutes
        /\ Len(errors) <= index
        /\ ErrorsOf("Unvisited route") = 0

\* three requests that each recorded an error: one unexpected, two out of order
C13_Witness ==
    /\ rets = <<>>
    /\ index = 3
    /\ VisitedRoutes = 2
    /\ ErrorsOf("Request out of order") = 2
    /\ ErrorsOf("Unexpected request") = 1

\* the routes whose visited flag a step changes
Flipped == {i \in 1..Len(routes) : routes'[i].visited # routes[i].visited}

\* C16: a route is unvisited when registered; a visited route stays visited through
\* every later call; a flag changes only in a ServeHTTP call, only for the one route
\* that call matched; and a route that is visited is never matched again.
C16_VisitedMonotone ==
    [][ /\ Len(routes') >= Len(routes)
        /\ \A i \in 1..Len(routes) : routes[i].visited => routes'[i].visited
        /\ \A i \in (Len(routes) + 1)..Len(routes') : ~routes'[i].visited
        /\ Cardinality(Flipped) <= 1
        /\ Flipped # {} => (Called = "ServeHTTP" /\ Flipped = {Request.rte})
        /\ (Called = "ServeHTTP" /\ Request.rte # 0) => ~routes[Request.rte].visited
      ]_vars

\* a route visited by the first request stays visited through a registration and an
\* AssertVisited call, and a second request of its key is given the later route
C16_Witness ==
    /\ Len(served) = 2
    /\ Len(rets) = 1
    /\ served[1].rte = 1
    /\ served[2].rte = 2
    /\ DispatchedKeys[1] = DispatchedKeys[2]
    /\ routes[1].visited /\ routes[2].visited
    /\ calls = <<calls[1], "ServeHTTP", calls[3], "AssertVisited", "ServeHTTP">>

\* the three kinds of strings the router records, over the methods and paths used
ErrorsWith(prefix) == {prefix \o ": " \o m \o " " \o p : m \in Methods, p \in Paths}

\* C17: errors only grows by appending: after every call the errors it held before
\* are its first elements; RegisterFunc and RegisterResp append nothing, ServeHTTP
\* appends at most one string, and an "Unvisited route" string is appended by
\* AssertVisited only.
C17_ErrorsAppendOnly ==
    [][ /\ Len(errors') >= Len(errors)
        /\ SubSeq(errors', 1, Len(errors)) = errors
        /\ Called \in {"RegisterFunc", "RegisterResp"} => errors' = errors
        /\ Called = "ServeHTTP" =>
              /\ Len(errors') <= Len(errors) + 1
              /\ \A k \in (Len(errors) + 1)..Len(errors') :
                    errors'[k] \in ErrorsWith("Request out of order")
                                    \cup ErrorsWith("Unexpected request")
        /\ Called = "AssertVisited" =>
              \A k \in (Len(errors) + 1)..Len(errors') :
                  errors'[k] \in ErrorsWith("Unvisited route")
      ]_vars

\* an error of a request, then an unvisited route recorded by AssertVisited, then a
\* registration and an error of a later request
C17_Witness ==
    /\ Len(errors) = 3
    /\ errors[1] \in ErrorsWith("Unexpected request")
    /\ errors[2] \in ErrorsWith("Unvisited route")
    /\ errors[3] \in ErrorsWith("Request out of order")
    /\ Len(routes) = 2

\* a registration appends to routes exactly one unvisited route with the method,
\* the path and the handler, and changes nothing else
PureAppend(method, path, handler) ==
    /\ routes' = Append(routes, [method |-> method, path |-> path,
                                 handler |-> handler, visited |-> FALSE])
    /\ Len(routes') = Len(routes) + 1
    /\ \A i \in 1..Len(routes) : routes'[i] = routes[i]
    /\ UNCHANGED <<index, errors, served, reported, rets, procs>>

\* C18: RegisterFunc and RegisterResp append exactly one unvisited route with the
\* given method and path (and handler) at the end of routes, also when a route with
\* that method and path exists or is visited already, and leave index, errors and
\* every existing route as they were.
C18_RegisterAppends ==
    [][ /\ \A method \in Methods, path \in Paths, handler \in Handlers :
              RegisterFunc(method, path, handler) => PureAppend(method, path, handler)
        /\ \A r \in Responses :
              RegisterResp(r[1], r[2], r[3], r[4]) =>
                  PureAppend(r[1], r[2], [Code |-> r[3], Body |-> r[4] \o "\n"])
        /\ Called \in {"RegisterFunc", "RegisterResp"} <=> routes' # routes /\ index' = index
      ]_vars

\* the last call registered a key a second time, after the first route of that key
\* was visited and an error was recorded
C18_Witness ==
    /\ LastCall \in {"RegisterFunc", "RegisterResp"}
    /\ Len(routes) = 2
    /\ RegisteredKeys[1] = RegisteredKeys[2]
    /\ routes[1].visited /\ ~routes[2].visited
    /\ index = 2
    /\ Len(errors) = 1

\* how many of the requests served after a step were given route p
ServedBy(p) == Cardinality({n \in 1..Len(served') : served'[n].rte = p})

\* C19: every ServeHTTP call returns with exactly one response recorded: that of
\* the handler of one route, the first unvisited one with the request's key, run
\* for the first and only time, or else the 404 response with no handler run;
\* and this holds whatever errors already holds.
C19_OneResponse ==
    [][ Called = "ServeHTTP" =>
          /\ Len(served') = Len(served) + 1
          /\ SubSeq(served', 1, Len(served)) = served
          /\ IF Awaited(routes, Request.method, Request.path)
             THEN LET i == FirstAwaited(routes, Request.method, Request.path)
                  IN  /\ Request.rte = i
                      /\ Request.resp = routes[i].handler
                      /\ Request.resp.Code # 404
                      /\ ServedBy(i) = 1
                      /\ Flipped = {i}
             ELSE /\ Request.rte = 0
                  /\ Request.resp = [Code |-> 404, Body |-> "404 page not found\n"]
                  /\ Flipped = {}
      ]_vars

\* after two errors and an AssertVisited call, a request is still matched and
\* answered by its route, and the next one is answered 404
C19_Witness ==
    /\ Len(served) = 3
    /\ Len(rets) = 1
    /\ served[1].rte = 0
    /\ served[2].rte = 1
    /\ served[2].resp = routes[1].handler
    /\ served[3].rte = 0
    /\ served[3].resp.Code = 404
    /\ LastCall = "ServeHTTP"

\* C20: when ServeHTTP matches a request with the route at position i, that route of
\* r.routes is visited when ServeHTTP returns, whatever the handler does, a handler
\* that registers further routes on the same Router included.
C20_MatchedRouteVisited ==
    [][ (Called = "ServeHTTP" /\ Request.rte # 0) => routes'[Request.rte].visited ]_vars

\* the requests that have returned and were matched with a route, and those that
\* were not
MatchedRequests == {n \in 1..Len(served) : served[n].rte # 0}
UnmatchedRequests == {n \in 1..Len(served) : served[n].rte = 0}

\* C14: when requests are served concurrently, every request that was matched
\* with a route has that route's registered response and the route is visited, and
\* once no request is in progress there are at most as many "Unexpected request"
\* errors as requests answered 404 and at most as many visited routes as matched
\* requests; the witness is the interleaving in which two requests for the key of
\* the only route are both matched with it.
C14_SameRouteTwice ==
    /\ \A n \in MatchedRequests :
          /\ served[n].rte \in 1..Len(routes)
          /\ routes[served[n].rte].visited
          /\ routes[served[n].rte].method = served[n].method
          /\ routes[served[n].rte].path = served[n].path
          /\ served[n].resp = response(routes[served[n].rte].handler)
    /\ \A n \in UnmatchedRequests : served[n].resp = NotFound
    /\ Active = {} =>
          /\ ErrorsOf("Unexpected request") <= Cardinality(UnmatchedRequests)
          /\ VisitedRoutes <= Cardinality(MatchedRequests)

\* one route, two requests for its key, both matched with it and answered by its
\* handler; the route is visited once, no error at all was recorded, and
\* AssertVisited has returned true
C14_Witness ==
    /\ Active = {}
    /\ Len(routes) = 1
    /\ Len(served) = 2
    /\ served[1].rte = 1 /\ served[2].rte = 1
    /\ served[1].method = served[2].method /\ served[1].path = served[2].path
    /\ served[1].resp = routes[1].handler /\ served[2].resp = routes[1].handler
    /\ served[2].resp.Code # 404
    /\ VisitedRoutes = 1
    /\ ErrorsOf("Unexpected request") = 0
    /\ errors = <<>>
    /\ rets = <<TRUE>>

\* C15: when requests are served concurrently, index is at most the number of
\* ServeHTTP calls that have returned, and at least 1 once one has returned: each
\* return writes one more than the value it read; the witness is a state where the
\* two are different.
C15_IndexLags ==
    /\ index <= Len(served)
    /\ Len(served) >= 1 => index >= 1

\* three routes of different keys and a request for each, in registration order;
\* the increments of the first two were interleaved, so index is 1 after both
\* returned, and the third request, for the third route and matched after both
\* returned, is judged out of order
C15_Witness ==
    /\ Len(routes) = 3
    /\ Len(served) = 2
    /\ served[1].rte = 1 /\ served[2].rte = 2
    /\ index = 1
    /\ \E g \in Goroutines :
          /\ Active = {g}
          /\ procs[g].pc = "execute"
          /\ procs[g].returned = 2
          /\ procs[g].m.rte = 3
          /\ ~procs[g].m.ordered

====
